---- MODULE Spec2Model ----
(***************************************************************************)
(* Model of plus/data/transmembrane.py: the transmembrane topology         *)
(* Grammar (a fixed-structure HMM), its Viterbi decoder Grammar.decode,    *)
(* the region extractor transmembrane_regions and the region matcher       *)
(* is_prediction_correct.                                                  *)
(*                                                                         *)
(* Log-probabilities are fixed-point integers in units of 1/100 nat;       *)
(* minus infinity (np.log(0)) is the sentinel NegInf with absorbing        *)
(* addition.  Arrays of the decoder are functions over 0..n-1, as in the   *)
(* source; label sequences of the region functions are TLA+ sequences,     *)
(* read at y[i+1] for the source's y[i].                                   *)
(***************************************************************************)
EXTENDS Integers, Sequences, FiniteSets

VARIABLES
    \* ---- region extraction / matching
    y_hat,            \* predicted coarse label sequence
    y,                \* ground-truth coarse label sequence
    regions,          \* result of transmembrane_regions(y)
    pred_regions,     \* is_prediction_correct: transmembrane_regions(y_hat)
    target_regions,   \* is_prediction_correct: transmembrane_regions(y)
    verdict,          \* return value of is_prediction_correct(y_hat, y)
    rpc,              \* position of the region caller
    \* ---- grammar and decoder
    n_helix,          \* Grammar.__init__ parameter
    logp,             \* input of Grammar.decode
    z,                \* per-state emission log-likelihood
    tb,               \* traceback table (np.int8)
    p0,               \* running best-score vector
    i,                \* loop index of decode
    j,                \* traceback cursor
    state,            \* terminal state
    score,            \* returned score
    yStates,          \* decode's y before self.mapping is applied
    yLabels,          \* decode's returned y
    pc,               \* position inside decode
    self_trans,       \* Grammar.trans, the transition log-probabilities
    \* ---- walking the transition graph
    walk              \* a state sequence following nonzero-weight transitions

vars == <<y_hat, y, regions, pred_regions, target_regions, verdict, rpc,
          n_helix, logp, z, tb, p0, i, j, state, score, yStates, yLabels, pc,
          self_trans, walk>>

regionVars == <<y_hat, y, regions, pred_regions, target_regions, verdict, rpc>>
decodeVars == <<logp, z, tb, p0, i, j, state, score, yStates, yLabels, pc>>

(***************************************************************************)
(* Bounds of the model.                                                    *)
(***************************************************************************)
MaxLen == 7      \* longest label sequence given to the region functions
MaxH == 2        \* largest helix length of the small grammars
MaxT == 4        \* longest emission sequence decoded with a small grammar
MaxWalk == 7     \* longest walk over the transition graph

(***************************************************************************)
(* Coarse labels.  The region functions only compare against 2, so one     *)
(* non-membrane label stands for inner/outer/signal.                       *)
(***************************************************************************)
MEMBRANE == 2
Labels == {0, MEMBRANE}

LabelSeqs == UNION {[1..n -> Labels] : n \in 0..MaxLen}

(***************************************************************************)
(* transmembrane_regions                                                   *)
(***************************************************************************)
\* regions.append((start, i))
CloseRunOffByOne(regs, start, k) == Append(regs, <<start, k + 1>>)
CloseRun(regs, start, k) == Append(regs, <<start, k>>)

\* if start > 0: regions.append((start, len(y)))
CloseAtEndAlways(regs, start, T) == CloseRun(regs, start, T)
CloseAtEnd(regs, start, T) ==
    IF start > 0 THEN CloseRun(regs, start, T) ELSE regs

\* one iteration of "for i in range(len(y))"; the loop state is <<start, regions>>
ScanStep(yy, k, start, regs) ==
    IF yy[k + 1] = MEMBRANE /\ start < 0 THEN <<k, regs>>
    ELSE IF yy[k + 1] # MEMBRANE /\ start > 0 THEN <<-1, CloseRun(regs, start, k)>>
    ELSE <<start, regs>>

RECURSIVE Scan(_, _, _, _)
Scan(yy, k, start, regs) ==
    IF k = Len(yy) THEN CloseAtEnd(regs, start, Len(yy))
    ELSE LET st == ScanStep(yy, k, start, regs)
         IN  Scan(yy, k + 1, st[1], st[2])

transmembrane_regions(yy) == Scan(yy, 0, -1, <<>>)

(***************************************************************************)
(* is_prediction_correct                                                   *)
(***************************************************************************)
MinOverlap == 5

Max2(a, b) == IF a >= b THEN a ELSE b
Min2(a, b) == IF a <= b THEN a ELSE b

\* s = max(p[0], t[0])
OverlapStartPredOnly(p, t) == p[1]
OverlapStart(p, t) == Max2(p[1], t[1])

\* overlap < 5
TooShortStrict(overlap) == overlap <= MinOverlap
TooShort(overlap) == overlap < MinOverlap

\* body of the zip loop: TRUE when the pair makes the function return 0
PairFails(p, t) ==
    \/ p[2] <= t[1]
    \/ t[2] <= p[1]
    \/ LET s == OverlapStart(p, t)
           e == Min2(p[2], t[2])
       IN  TooShort(e - s)

RECURSIVE ZipLoop(_, _, _)
ZipLoop(P, R, k) ==
    IF k > Len(P) \/ k > Len(R) THEN 1
    ELSE IF PairFails(P[k], R[k]) THEN 0
    ELSE ZipLoop(P, R, k + 1)

VerdictOf(P, R) == IF Len(P) # Len(R) THEN 0 ELSE ZipLoop(P, R, 1)

is_prediction_correct(a, b) ==
    VerdictOf(transmembrane_regions(a), transmembrane_regions(b))

(***************************************************************************)
(* Numeric domain.                                                         *)
(***************************************************************************)
NegInf == -100000000     \* np.log(0)
LogEps == -3604          \* np.log(eps), eps = np.finfo(float).eps
Ln2 == 69                \* np.log(2 + eps)
Ln3 == 110               \* np.log(3 + eps)

\* float addition with minus infinity absorbing
Add(a, b) == IF a = NegInf \/ b = NegInf THEN NegInf ELSE a + b

\* np.log(w + eps) for the weights and weight sums of the grammar
LogPlusEps(w) ==
    CASE w = 0 -> LogEps
      [] w = 1 -> 0
      [] w = 2 -> Ln2
      [] w = 3 -> Ln3

\* np.exp on the log-probabilities of the inputs; the result in quarters
Exp(l) ==
    CASE l = NegInf -> 0
      [] l = -139 -> 1
      [] l = -69 -> 2
      [] l = 0 -> 4

\* np.log of a probability mass given in quarters
Log(q) ==
    CASE q = 0 -> NegInf
      [] q = 1 -> -139
      [] q = 2 -> -69
      [] q = 3 -> -29
      [] q = 4 -> 0
      [] q = 5 -> 22
      [] q = 6 -> 41
      [] q = 7 -> 56
      [] q = 8 -> 69

\* sum of f[lo..hi], halving the range
RECURSIVE SumRange(_, _, _)
SumRange(f, lo, hi) ==
    IF lo > hi THEN 0
    ELSE IF lo = hi THEN f[lo]
    ELSE LET mid == (lo + hi) \div 2
         IN  SumRange(f, lo, mid) + SumRange(f, mid + 1, hi)

SumTo(f, n) == SumRange(f, 0, n - 1)

(***************************************************************************)
(* Grammar.__init__                                                        *)
(***************************************************************************)
n_states(H) == 3 + 2 * H
States(H) == 0..(n_states(H) - 1)

StartW(H) == [s \in States(H) |-> IF s \in {0, 1, 2} THEN 1 ELSE 0]

EndW(H) == [s \in States(H) |-> IF s \in {0, 1} THEN 1 ELSE 0]

\* trans[a, b] after lines 70-85
TransWChainSkip(H, a, b) ==
    IF \/ (a = 0 /\ b = 0) \/ (a = 0 /\ b = 3)
       \/ (a = 1 /\ b = 1) \/ (a = 1 /\ b = 3 + H)
       \/ (a = 2 /\ b = 0) \/ (a = 2 /\ b = 1)
       \/ (a \in 3..(1 + H) /\ b = a + 1)
       \/ (a \in 3..(2 + H) /\ b = 1)
       \/ (a \in (3 + H)..(1 + 2 * H) /\ b = a + 1)
       \/ (a = 2 + 2 * H /\ b = 0)
    THEN 1 ELSE 0
TransW(H, a, b) ==
    IF \/ (a = 0 /\ b = 0) \/ (a = 0 /\ b = 3)
       \/ (a = 1 /\ b = 1) \/ (a = 1 /\ b = 3 + H)
       \/ (a = 2 /\ b = 0) \/ (a = 2 /\ b = 1)
       \/ (a \in 3..(1 + H) /\ b = a + 1)
       \/ (a = 2 + H /\ b = 1)
       \/ (a \in (3 + H)..(1 + 2 * H) /\ b = a + 1)
       \/ (a = 2 + 2 * H /\ b = 0)
    THEN 1 ELSE 0

\* emit[s, c] after lines 87-93
EmitW(H, s, c) ==
    IF \/ (s \in {0, 1} /\ c \in {0, 1})
       \/ (s \in 3..(2 + 2 * H) /\ c = 2)
    THEN 1 ELSE 0

Mapping(H) ==
    [s \in States(H) |->
        IF s = 0 THEN 0
        ELSE IF s = 1 THEN 1
        ELSE IF s = 2 THEN 3
        ELSE 2]

\* self.start = np.log(start+eps) - np.log(start.sum()+eps)
SelfStart(H) ==
    LET total == SumTo(StartW(H), n_states(H))
    IN  [s \in States(H) |-> LogPlusEps(StartW(H)[s]) - LogPlusEps(total)]

\* self.end = np.log(end+eps) - np.log(end.sum()+eps)
SelfEnd(H) ==
    LET total == SumTo(EndW(H), n_states(H))
    IN  [s \in States(H) |-> LogPlusEps(EndW(H)[s]) - LogPlusEps(total)]

\* self.trans = np.log(trans+eps) - np.log(trans.sum(1, keepdims=True)+eps)
SelfTrans(H) ==
    [a \in States(H) |->
        LET row == [b \in States(H) |-> TransW(H, a, b)]
            total == SumTo(row, n_states(H))
        IN  [b \in States(H) |-> LogPlusEps(row[b]) - LogPlusEps(total)]]

(***************************************************************************)
(* Grammar.decode                                                          *)
(***************************************************************************)
\* storing into the np.int8 traceback table
ToInt8(v) == ((v + 128) % 256) - 128

\* numpy indexing of an axis of length n with a possibly negative index
PyIndex(k, n) == IF k < 0 THEN k + n ELSE k

\* np.argmax / np.max over a vector with indices 0..n-1 (first maximum wins)
\* the first index of the maximum of v[lo..hi], halving the range
RECURSIVE ArgMaxRange(_, _, _)
ArgMaxRange(v, lo, hi) ==
    IF lo = hi THEN lo
    ELSE LET mid == (lo + hi) \div 2
             l == ArgMaxRange(v, lo, mid)
             r == ArgMaxRange(v, mid + 1, hi)
         IN  IF v[r] > v[l] THEN r ELSE l

ArgMax(v, n) == ArgMaxRange(v, 0, n - 1)

\* z = np.log(np.dot(np.exp(logp), self.emit.T))
EmissionLogLik(H, lp) ==
    [t \in DOMAIN lp |->
        [s \in States(H) |->
            Log(  Exp(lp[t][1]) * EmitW(H, s, 0)
                + Exp(lp[t][2]) * EmitW(H, s, 1)
                + Exp(lp[t][3]) * EmitW(H, s, 2))]]

\* column b of "p0[:, np.newaxis] + self.trans + z[i + 1]"
TransColumn(H, b) ==
    [a \in States(H) |-> Add(Add(p0[a], self_trans[a][b]), z[i + 1][b])]

SeqLen == Cardinality(DOMAIN logp)

(***************************************************************************)
(* Inputs.                                                                 *)
(***************************************************************************)
\* log-probability vectors over the 3 observed classes
LoopVec == <<0, NegInf, NegInf>>          \* p = (1, 0, 0)
MemVec == <<NegInf, NegInf, 0>>           \* p = (0, 0, 1)
HalfVec == <<-69, NegInf, -69>>           \* p = (1/2, 0, 1/2)
MixVec == <<-139, -139, -69>>             \* p = (1/4, 1/4, 1/2)
ZeroVec == <<NegInf, NegInf, NegInf>>     \* p = (0, 0, 0)
EmitLogVecs == {LoopVec, MemVec, HalfVec, MixVec, ZeroVec}

SmallInputs == UNION {[0..(T - 1) -> EmitLogVecs] : T \in 1..MaxT}

\* helix lengths at which a state index no longer fits the np.int8 table:
\* 63 is the first with n_states - 1 > 127, 128 the first with 2 + 2H = 256 + 2
WideHelix == {63, 128}
WideInputs == {[t \in 0..1 |-> IF t = 0 THEN MemVec ELSE LoopVec],
               [t \in 0..1 |-> IF t = 0 THEN MixVec ELSE HalfVec]}

Unset == <<>>

(***************************************************************************)
(* Region caller: transmembrane_regions(y), then                           *)
(* is_prediction_correct(y_hat, y).                                        *)
(***************************************************************************)
RegionsIdle ==
    /\ y_hat = <<>> /\ y = <<>> /\ regions = <<>>
    /\ pred_regions = <<>> /\ target_regions = <<>>
    /\ verdict = -1 /\ rpc = "idle"

DecodeIdle ==
    /\ logp = Unset /\ z = Unset /\ tb = Unset /\ p0 = Unset
    /\ i = 0 /\ j = 0 /\ state = 0 /\ score = 0
    /\ yStates = Unset /\ yLabels = Unset /\ pc = "idle"
    /\ self_trans = Unset

InitRegions ==
    /\ y_hat \in LabelSeqs
    /\ y \in LabelSeqs
    /\ regions = <<>>
    /\ pred_regions = <<>> /\ target_regions = <<>>
    /\ verdict = -1
    /\ rpc = "call"
    /\ n_helix = 1
    /\ DecodeIdle
    /\ walk = <<>>

ExtractRegions ==
    /\ rpc = "call"
    /\ regions' = transmembrane_regions(y)
    /\ rpc' = "extracted"
    /\ UNCHANGED <<y_hat, y, pred_regions, target_regions, verdict>>
    /\ UNCHANGED <<n_helix, decodeVars, self_trans, walk>>

IsPredictionCorrect ==
    /\ rpc = "extracted"
    /\ pred_regions' = transmembrane_regions(y_hat)
    /\ target_regions' = transmembrane_regions(y)
    /\ verdict' = is_prediction_correct(y_hat, y)
    /\ rpc' = "scored"
    /\ UNCHANGED <<y_hat, y, regions>>
    /\ UNCHANGED <<n_helix, decodeVars, self_trans, walk>>

NextRegions == ExtractRegions \/ IsPredictionCorrect

SpecRegions == InitRegions /\ [][NextRegions]_vars

(***************************************************************************)
(* Decoder: Grammar(n_helix).decode(logp), one action per loop iteration.  *)
(***************************************************************************)
InitDecode ==
    /\ RegionsIdle
    /\ walk = <<>>
    /\ n_helix \in (1..MaxH) \cup WideHelix
    /\ self_trans = SelfTrans(n_helix)
    /\ logp \in (IF n_helix \in WideHelix THEN WideInputs ELSE SmallInputs)
    /\ z = Unset /\ tb = Unset /\ p0 = Unset
    /\ i = 0 /\ j = 0 /\ state = 0 /\ score = 0
    /\ yStates = Unset /\ yLabels = Unset
    /\ pc = "call"

\* lines 109-113
DecodeBegin ==
    /\ pc = "call"
    /\ SeqLen >= 1
    /\ LET zz == EmissionLogLik(n_helix, logp)
       IN  /\ z' = zz
           /\ p0' = [s \in States(n_helix) |-> Add(zz[0][s], SelfStart(n_helix)[s])]
    /\ tb' = [t \in 0..(SeqLen - 1) |-> [s \in States(n_helix) |-> 0 - 1]]
    /\ i' = 0
    /\ pc' = "forward"
    /\ UNCHANGED <<logp, j, state, score, yStates, yLabels>>
    /\ UNCHANGED <<regionVars, n_helix, self_trans, walk>>

\* lines 114-117, one iteration
Forward ==
    /\ pc = "forward"
    /\ i < SeqLen - 1
    /\ LET n == n_states(n_helix)
           best == [b \in States(n_helix) |-> ArgMax(TransColumn(n_helix, b), n)]
       IN  /\ tb' = [tb EXCEPT ![i + 1] =
                        [b \in States(n_helix) |-> ToInt8(best[b])]]
           /\ p0' = [b \in States(n_helix) |-> TransColumn(n_helix, b)[best[b]]]
    /\ i' = i + 1
    /\ UNCHANGED <<logp, z, j, state, score, yStates, yLabels, pc>>
    /\ UNCHANGED <<regionVars, n_helix, self_trans, walk>>

\* lines 119-125
EndTransition ==
    /\ pc = "forward"
    /\ i = SeqLen - 1
    /\ LET n == n_states(n_helix)
           pe == [s \in States(n_helix) |-> Add(p0[s], SelfEnd(n_helix)[s])]
           st == ArgMax(pe, n)
       IN  /\ p0' = pe
           /\ state' = st
           /\ score' = pe[st]
           /\ j' = st
           /\ yStates' = [t \in 0..(SeqLen - 1) |->
                             IF t = SeqLen - 1 THEN st ELSE 0]
    /\ pc' = "traceback"
    /\ UNCHANGED <<logp, z, tb, i, yLabels>>
    /\ UNCHANGED <<regionVars, n_helix, self_trans, walk>>

\* lines 126-128, one iteration
Traceback ==
    /\ pc = "traceback"
    /\ i > 0
    /\ LET jj == tb[i][PyIndex(j, n_states(n_helix))]
       IN  /\ j' = jj
           /\ yStates' = [yStates EXCEPT ![i - 1] = jj]
    /\ i' = i - 1
    /\ UNCHANGED <<logp, z, tb, p0, state, score, yLabels, pc>>
    /\ UNCHANGED <<regionVars, n_helix, self_trans, walk>>

\* lines 131-133
MapStates ==
    /\ pc = "traceback"
    /\ i = 0
    /\ yLabels' = [t \in 0..(SeqLen - 1) |->
                      Mapping(n_helix)[PyIndex(yStates[t], n_states(n_helix))]]
    /\ pc' = "done"
    /\ UNCHANGED <<logp, z, tb, p0, i, j, state, score, yStates>>
    /\ UNCHANGED <<regionVars, n_helix, self_trans, walk>>

NextDecode == DecodeBegin \/ Forward \/ EndTransition \/ Traceback \/ MapStates

SpecDecode == InitDecode /\ [][NextDecode]_vars

(***************************************************************************)
(* Walks over the transitions the grammar gives nonzero weight.            *)
(***************************************************************************)
Allowed(H, a, b) == TransW(H, a, b) # 0

InitWalk ==
    /\ RegionsIdle
    /\ DecodeIdle
    /\ n_helix \in 1..MaxH
    /\ \E s \in States(n_helix) : walk = <<s>>

WalkStep ==
    /\ Len(walk) < MaxWalk
    /\ \E b \in States(n_helix) :
          /\ Allowed(n_helix, walk[Len(walk)], b)
          /\ walk' = Append(walk, b)
    /\ UNCHANGED <<regionVars, decodeVars, n_helix, self_trans>>

NextWalk == WalkStep

SpecWalk == InitWalk /\ [][NextWalk]_vars

(***************************************************************************)
(* Properties of Grammar.decode                                            *)
(***************************************************************************)
\* start[s_0] + sum_t z_t[s_t] + sum_{t>=1} trans[s_{t-1}][s_t], up to position t
RECURSIVE PrefixScore(_, _)
PrefixScore(f, t) ==
    IF t = 0 THEN Add(SelfStart(n_helix)[f[0]], z[0][f[0]])
    ELSE Add(Add(PrefixScore(f, t - 1), self_trans[f[t - 1]][f[t]]), z[t][f[t]])

PathScore(f) ==
    Add(PrefixScore(f, SeqLen - 1), SelfEnd(n_helix)[f[SeqLen - 1]])

AllPaths == [0..(SeqLen - 1) -> States(n_helix)]

IsStatePath(f) == \A t \in 0..(SeqLen - 1) : f[t] \in States(n_helix)

\* C3: the returned score is the maximum of the path score over all
\* n_states^T state sequences, and the state path rebuilt by the traceback is
\* a state sequence of length T that attains it and maps to the returned labels.
C3_DecodeIsViterbi ==
    pc = "done" =>
        /\ \A f \in AllPaths : PathScore(f) <= score
        /\ \E f \in AllPaths : PathScore(f) = score
        /\ IsStatePath(yStates)
        /\ PathScore(yStates) = score
        /\ yLabels = [t \in 0..(SeqLen - 1) |-> Mapping(n_helix)[yStates[t]]]

NonFinalChainStates(H) == (3..(1 + H)) \cup ((3 + H)..(1 + 2 * H))

\* C4: the state selected for the last position is never the signal-peptide
\* state 2 and never a non-final helix-chain state; the end prior's weight is
\* nonzero on the loop states 0 and 1 only.
C4_EndsInLoopOrChainEnd ==
    pc = "done" =>
        /\ state # 2
        /\ state \notin NonFinalChainStates(n_helix)
        /\ yStates[SeqLen - 1] = state
        /\ {s \in States(n_helix) : EndW(n_helix)[s] # 0} = {0, 1}

\* maximal runs of the membrane label in a 0-based label array
MembraneRuns(lab, T) ==
    {r \in (0..(T - 1)) \X (0..(T - 1)) :
        /\ r[1] <= r[2]
        /\ \A t \in r[1]..r[2] : lab[t] = MEMBRANE
        /\ (r[1] = 0 \/ lab[r[1] - 1] # MEMBRANE)
        /\ (r[2] = T - 1 \/ lab[r[2] + 1] # MEMBRANE)}

\* C5: every maximal run of helix-chain states (coarse label 2) of the decoded
\* path has length exactly H unless it contains position 0 or position T-1.
C5_HelixRunsHaveLengthH ==
    pc = "done" =>
        \A r \in MembraneRuns(yLabels, SeqLen) :
            \/ r[1] = 0
            \/ r[2] = SeqLen - 1
            \/ r[2] - r[1] + 1 = n_helix

\* C9: decode never outputs the signal-peptide coarse label 3, and state 2 is
\* neither the terminal state nor on the reconstructed path.
C9_NeverSignalLabel ==
    pc = "done" =>
        /\ state # 2
        /\ \A t \in 0..(SeqLen - 1) : yStates[t] # 2 /\ yLabels[t] # 3

(***************************************************************************)
(* Properties of transmembrane_regions and is_prediction_correct           *)
(***************************************************************************)
\* positions (0-based) carrying the membrane label
MembranePositions(yy) == {k \in 0..(Len(yy) - 1) : yy[k + 1] = MEMBRANE}

\* positions covered by a list of half-open intervals
Covered(regs) ==
    UNION {regs[k][1]..(regs[k][2] - 1) : k \in DOMAIN regs}

\* the maximal contiguous runs of the membrane label, as half-open intervals
MaximalRuns(yy) ==
    {r \in (0..Len(yy)) \X (0..Len(yy)) :
        /\ r[1] < r[2]
        /\ \A k \in r[1]..(r[2] - 1) : yy[k + 1] = MEMBRANE
        /\ (r[1] = 0 \/ yy[r[1]] # MEMBRANE)
        /\ (r[2] = Len(yy) \/ yy[r[2] + 1] # MEMBRANE)}

\* C1: transmembrane_regions(y) is exactly the left-to-right list of all
\* maximal runs of label 2 as half-open intervals, whatever the first label
\* is: the intervals are disjoint and cover exactly the positions with y[i] = 2.
C1_RegionsAreAllMaximalRuns ==
    rpc = "extracted" =>
        /\ {regions[k] : k \in DOMAIN regions} = MaximalRuns(y)
        /\ Len(regions) = Cardinality(MaximalRuns(y))
        /\ \A k \in 1..(Len(regions) - 1) : regions[k][2] <= regions[k + 1][1]
        /\ Covered(regions) = MembranePositions(y)

\* the pair condition of the matcher as the specification words it
PairMatches(p, r) ==
    /\ p[2] > r[1]
    /\ r[2] > p[1]
    /\ Min2(p[2], r[2]) - Max2(p[1], r[1]) >= 5

C6_VerdictSymmetric ==
    rpc = "scored" => verdict = is_prediction_correct(y, y_hat)

\* two different region lists of the same length were compared, pair by pair
C6_Witness ==
    /\ rpc = "scored"
    /\ Len(pred_regions) = Len(target_regions)
    /\ Len(pred_regions) >= 1
    /\ pred_regions # target_regions
    /\ verdict = 1

\* the length-T label sequence with the membrane label exactly on regs
Render(regs, T) ==
    [k \in 1..T |-> IF (k - 1) \in Covered(regs) THEN MEMBRANE ELSE 0]

\* C7: extracting the regions of the rendering of an extracted region list
\* gives the same list.
C7_ExtractionIdempotent ==
    rpc = "extracted" =>
        transmembrane_regions(Render(regions, Len(y))) = regions

\* a list of two regions, the second closed by the end of the sequence
C7_Witness ==
    /\ rpc = "extracted"
    /\ Len(regions) = 2
    /\ regions[2][2] = Len(y)
    /\ Render(regions, Len(y)) = y

\* C10: every returned interval (s, e) has 0 <= s < e <= T, covers only
\* membrane positions, is a maximal run, and consecutive intervals satisfy
\* e1 < s2.
C10_RegionsSound ==
    rpc = "extracted" =>
        /\ \A k \in DOMAIN regions :
              LET s == regions[k][1]
                  e == regions[k][2]
              IN  /\ 0 <= s /\ s < e /\ e <= Len(y)
                  /\ \A m \in s..(e - 1) : y[m + 1] = MEMBRANE
                  /\ (s = 0 \/ y[s] # MEMBRANE)
                  /\ (e = Len(y) \/ y[e + 1] # MEMBRANE)
        /\ \A k \in 1..(Len(regions) - 1) : regions[k][2] < regions[k + 1][1]

\* two regions were returned, one closed by a label change and one by the end
C10_Witness ==
    /\ rpc = "extracted"
    /\ Len(regions) = 2
    /\ regions[1][2] < Len(y)
    /\ regions[2][2] = Len(y)
    /\ y[1] # MEMBRANE

(***************************************************************************)
(* Properties of the transition structure                                  *)
(***************************************************************************)
\* the successors the specification gives each state
ClaimedSuccessors(H, a) ==
    IF a = 0 THEN {0, 3}
    ELSE IF a = 1 THEN {1, 3 + H}
    ELSE IF a = 2 THEN {0, 1}
    ELSE IF a = 2 + H THEN {1}
    ELSE IF a = 2 + 2 * H THEN {0}
    ELSE {a + 1}

ChainStates(H) == 3..(2 + 2 * H)
ChainFirst(H) == {3, 3 + H}
OppositeLoop(H, first) == IF first = 3 THEN 1 ELSE 0

\* C8: the nonzero-weight transitions are exactly 0->{0,3}, 1->{1,3+H},
\* 2->{0,1}, i->i+1 inside a chain, 2+H->1 and 2+2H->0.  So a walk along them
\* never enters state 2, enters a chain only at its first state, runs through
\* the H states of the chain in order and then the opposite loop state, and
\* successive helices alternate direction with a loop position in between.
C8_TransitionStructure ==
    LET H == n_helix
        W == walk
        n == Len(walk)
    IN  /\ \A a \in States(H) : \A b \in States(H) :
              Allowed(H, a, b) <=> b \in ClaimedSuccessors(H, a)
        /\ \A k \in 2..n : W[k] # 2
        /\ \A k \in 2..n :
              (W[k] \in ChainStates(H) \ ChainFirst(H)) => W[k - 1] = W[k] - 1
        /\ \A k \in 2..n :
              W[k] \in ChainFirst(H) => W[k - 1] \in {0, 1}
        /\ \A k \in 1..n :
              W[k] \in ChainFirst(H) =>
                  /\ \A m \in 0..(H - 1) : k + m <= n => W[k + m] = W[k] + m
                  /\ k + H <= n => W[k + H] = OppositeLoop(H, W[k])
        /\ \A k \in 1..n : \A k2 \in (k + 1)..n :
              ( /\ W[k] \in ChainFirst(H)
                /\ W[k2] \in ChainFirst(H)
                /\ \A m \in (k + 1)..(k2 - 1) : W[m] \notin ChainFirst(H) )
              => (W[k2] # W[k] /\ k2 > k + H)

\* a walk from the inner loop through a whole inner->outer helix, the outer
\* loop, and into the outer->inner chain
C8_Witness ==
    /\ Len(walk) >= n_helix + 3
    /\ n_helix >= 2
    /\ walk[1] = 0
    /\ walk[2] = 3
    /\ walk[n_helix + 2] = 1
    /\ walk[n_helix + 3] = 3 + n_helix

====
